---- MODULE Spec2Model ----
(***************************************************************************)
(* Model of consensus/clique/pallas.go: the super-signer tally, the        *)
(* scheduled signer-set override and the proposer delay computation of a   *)
(* clique Snapshot.                                                        *)
(*                                                                         *)
(* Addresses are natural numbers; their numeric order stands for the byte  *)
(* order of common.Address used by signersAscending.                       *)
(* A Go map is a TLA+ function whose DOMAIN is the set of keys present.    *)
(* A nil pointer is the empty sequence, a non-nil one a one-element        *)
(* sequence holding the pointee.                                           *)
(***************************************************************************)
EXTENDS Integers, Sequences, FiniteSets, TLC

VARIABLES s, last, prev

vars == <<s, last, prev>>

\* ---------------------------------------------------------------- bounds
NumAddr == 2          \* addresses of the tally / override specification
MaxVotes == 2         \* cap on SuperTally.Votes (a Go int in the code)
MaxNumber == 3        \* largest header number processed in one behaviour
MaxPallasBlock == 3   \* largest activation block drawn for config.Pallas.Block
MaxEpoch == 2         \* largest config.Epoch drawn
NumSchedAddr == 4     \* addresses of the scheduler specifications
MaxBlock == 4         \* largest block number drawn as a key of Recents
MaxRecents == 2       \* most entries drawn for Recents
MaxSuper == 12        \* most super signers drawn for hasPassedSuper
MaxSigners == 8       \* most signers drawn for the secondary slot
MaxSlotNumber == 16   \* largest block number drawn for the secondary slot

Addr == 1..NumAddr
SchedAddr == 1..NumSchedAddr

\* ------------------------------------------------------------ map helpers
EmptyMap == [k \in {} |-> 0]

MapPut(m, k, v) == [x \in (DOMAIN m) \cup {k} |-> IF x = k THEN v ELSE m[x]]

MapDelete(m, k) == [x \in (DOMAIN m) \ {k} |-> m[x]]

SetMin(S) == CHOOSE x \in S : \A y \in S : x <= y

SetMax(S) == CHOOSE x \in S : \A y \in S : x >= y

RECURSIVE SortAsc(_)
SortAsc(S) == IF S = {} THEN <<>>
              ELSE LET m == SetMin(S) IN <<m>> \o SortAsc(S \ {m})

\* 2^e mod m, by repeated doubling (2^64 itself is not needed as a number)
RECURSIVE Pow2Mod(_, _)
Pow2Mod(e, m) == IF e = 0 THEN 1 % m ELSE (2 * Pow2Mod(e - 1, m)) % m

\* ------------------------------------------------------ Signer registry
\* Snapshot.signers(): the signers in ascending order
signers(snap) == SortAsc(snap.Signers)

superSigners(snap) == SortAsc(snap.SuperSigners)

isSuper(snap, signer) == signer \in snap.SuperSigners

isPallasActive(snap, blockNumber) ==
    IF snap.config.Pallas = <<>> THEN FALSE
    ELSE IF snap.config.Pallas[1].Block = <<>> THEN FALSE
    ELSE blockNumber >= snap.config.Pallas[1].Block[1]

\* ------------------------------------------------------ Supervalidator tally
validVoteSuper(snap, address, authorize) ==
    LET regularsigner == address \in snap.Signers
        signer == address \in snap.SuperSigners
    IN  (signer /\ ~authorize) \/ (~signer /\ regularsigner /\ authorize)

castSuper_NoValidityCheck(snap, address, authorize) ==
    IF address \in DOMAIN snap.SuperTally
    THEN [snap |-> [snap EXCEPT !.SuperTally[address].Votes = @ + 1], ret |-> TRUE]
    ELSE [snap |-> [snap EXCEPT !.SuperTally =
                       MapPut(@, address, [Authorize |-> authorize, Votes |-> 1])],
          ret |-> TRUE]

castSuper_ResetsOnOpposite(snap, address, authorize) ==
    IF ~validVoteSuper(snap, address, authorize)
    THEN [snap |-> snap, ret |-> FALSE]
    ELSE IF /\ address \in DOMAIN snap.SuperTally
            /\ snap.SuperTally[address].Authorize = authorize
    THEN [snap |-> [snap EXCEPT !.SuperTally[address].Votes = @ + 1], ret |-> TRUE]
    ELSE [snap |-> [snap EXCEPT !.SuperTally =
                       MapPut(@, address, [Authorize |-> authorize, Votes |-> 1])],
          ret |-> TRUE]

\* castSuper: the Snapshot after the call and the value returned
castSuper(snap, address, authorize) ==
    IF ~validVoteSuper(snap, address, authorize)
    THEN [snap |-> snap, ret |-> FALSE]
    ELSE IF address \in DOMAIN snap.SuperTally
    THEN [snap |-> [snap EXCEPT !.SuperTally[address].Votes = @ + 1], ret |-> TRUE]
    ELSE [snap |-> [snap EXCEPT !.SuperTally =
                       MapPut(@, address, [Authorize |-> authorize, Votes |-> 1])],
          ret |-> TRUE]

uncastSuper_KeepsEmptyTally(snap, address, authorize) ==
    IF address \notin DOMAIN snap.SuperTally
    THEN [snap |-> snap, ret |-> FALSE]
    ELSE IF snap.SuperTally[address].Authorize # authorize
    THEN [snap |-> snap, ret |-> FALSE]
    ELSE [snap |-> [snap EXCEPT !.SuperTally[address].Votes = @ - 1], ret |-> TRUE]

uncastSuper_IgnoresDirection(snap, address, authorize) ==
    IF address \notin DOMAIN snap.SuperTally
    THEN [snap |-> snap, ret |-> FALSE]
    ELSE IF snap.SuperTally[address].Votes > 1
    THEN [snap |-> [snap EXCEPT !.SuperTally[address].Votes = @ - 1], ret |-> TRUE]
    ELSE [snap |-> [snap EXCEPT !.SuperTally = MapDelete(@, address)], ret |-> TRUE]

\* uncastSuper: the Snapshot after the call and the value returned
uncastSuper(snap, address, authorize) ==
    IF address \notin DOMAIN snap.SuperTally
    THEN [snap |-> snap, ret |-> FALSE]
    ELSE IF snap.SuperTally[address].Authorize # authorize
    THEN [snap |-> snap, ret |-> FALSE]
    ELSE IF snap.SuperTally[address].Votes > 1
    THEN [snap |-> [snap EXCEPT !.SuperTally[address].Votes = @ - 1], ret |-> TRUE]
    ELSE [snap |-> [snap EXCEPT !.SuperTally = MapDelete(@, address)], ret |-> TRUE]

hasPassedSuper_AtLeast(snap, tally, blockNumber) ==
    tally.Votes >= (Cardinality(snap.SuperSigners) * 3) \div 4

hasPassedSuper(snap, tally, blockNumber) ==
    tally.Votes > (Cardinality(snap.SuperSigners) * 3) \div 4

\* ------------------------------------------------------ Scheduled override
\* the addresses of a target list
TargetAddrs(nextSigners) == {nextSigners[i].Address : i \in DOMAIN nextSigners}

\* the addresses of a target list whose Super flag is set
TargetSupers(nextSigners) ==
    {nextSigners[i].Address : i \in {j \in DOMAIN nextSigners : nextSigners[j].Super}}

overrideDue_IgnoresEpoch(snap, headerNumber, lookup) ==
    LET nextNumber == headerNumber + 1
    IN  /\ isPallasActive(snap, nextNumber - 1)
        /\ lookup # <<>>

overrideDue_ActiveAtNext(snap, headerNumber, lookup) ==
    LET nextNumber == headerNumber + 1
    IN  /\ isPallasActive(snap, nextNumber)
        /\ nextNumber % snap.config.Epoch = 0
        /\ lookup # <<>>

\* whether applyPallasOverride reaches the replacement for this header;
\* lookup is the result of config.Pallas.Validators[nextNumber]: <<>> when
\* the key is absent, <<list>> when it is present
overrideDue(snap, headerNumber, lookup) ==
    LET nextNumber == headerNumber + 1
    IN  /\ isPallasActive(snap, nextNumber - 1)
        /\ nextNumber % snap.config.Epoch = 0
        /\ lookup # <<>>

applyPallasOverride_KeepsRemovedSuper(snap, headerNumber, lookup) ==
    IF ~overrideDue(snap, headerNumber, lookup) THEN snap
    ELSE LET nextSigners == lookup[1]
             newSigners == TargetAddrs(nextSigners)
         IN  [snap EXCEPT !.Signers = (snap.Signers \cap newSigners) \cup newSigners,
                          !.SuperSigners = snap.SuperSigners \cup TargetSupers(nextSigners),
                          !.Recents = EmptyMap]

applyPallasOverride_KeepsOldSigners(snap, headerNumber, lookup) ==
    IF ~overrideDue(snap, headerNumber, lookup) THEN snap
    ELSE LET nextSigners == lookup[1]
             newSigners == TargetAddrs(nextSigners)
         IN  [snap EXCEPT !.Signers = snap.Signers \cup newSigners,
                          !.SuperSigners = snap.SuperSigners \cup TargetSupers(nextSigners),
                          !.Recents = EmptyMap]

\* applyPallasOverride: the Snapshot after the call
applyPallasOverride(snap, headerNumber, lookup) ==
    IF ~overrideDue(snap, headerNumber, lookup) THEN snap
    ELSE LET nextSigners == lookup[1]
             newSigners == TargetAddrs(nextSigners)
             \* first loop: every old signer absent from the target list leaves
             \* Signers and, when present there, SuperSigners
             removed == snap.Signers \ newSigners
             signers1 == snap.Signers \ removed
             supers1 == snap.SuperSigners \ removed
             \* second loop: every listed address joins Signers, every listed
             \* address whose Super flag is set joins SuperSigners
             signers2 == signers1 \cup newSigners
             supers2 == supers1 \cup TargetSupers(nextSigners)
         IN  [snap EXCEPT !.Signers = signers2,
                          !.SuperSigners = supers2,
                          !.Recents = EmptyMap]

\* ------------------------------------------------------ Proposer scheduler
\* lastSlot: the values the call can return.  The loop ranges over the map
\* s.Recents, whose iteration order Go leaves unspecified, and returns at the
\* first entry of the signer: any block number the signer has an entry for.
lastSlot(snap, slot) ==
    LET signer == signers(snap)[slot + 1]
        hits == {bn \in DOMAIN snap.Recents : snap.Recents[bn] = signer}
    IN  IF hits = {} THEN {0} ELSE hits

offset_AbsentIsZero(snap, signer) ==
    LET sigs == signers(snap)
        hits == {i \in 1..Len(sigs) : sigs[i] = signer}
    IN  IF hits = {} THEN 0 ELSE SetMin(hits) - 1

\* offset: the index of signer in signers(), or len(signers()) when absent
offset(snap, signer) ==
    LET sigs == signers(snap)
        hits == {i \in 1..Len(sigs) : sigs[i] = signer}
    IN  IF hits = {} THEN Len(sigs) ELSE SetMin(hits) - 1

primarySigner(number, signerCount) == number % signerCount

secondarySigner_HalfAhead(number, signerCount) ==
    LET x == number % signerCount
        h == signerCount \div 2
    IN  (x + h) % signerCount

\* (number%signerCount - 1 + signerCount/2) % signerCount on uint64: the
\* subtraction wraps to 2^64-1 when number%signerCount is 0, and the addition
\* wraps back unless signerCount/2 is 0
secondarySigner(number, signerCount) ==
    LET x == number % signerCount
        h == signerCount \div 2
    IN  IF x + h >= 1 THEN (x - 1 + h) % signerCount
        ELSE (Pow2Mod(64, signerCount) + signerCount - 1) % signerCount

Result(delay, wiggle) == [delay |-> delay, wiggle |-> wiggle]

computeDelay_SecondaryFirst(snap, signer, number) ==
    LET signerCount == Len(signers(snap))
        secondary == secondarySigner(number, signerCount)
    IN  {IF secondary = offset(snap, signer) THEN Result(0, FALSE) ELSE Result(2, TRUE)}

\* computeDelay: the (delay, wiggle) pairs the call can return, one for each
\* way its calls of lastSlot can come out
computeDelay(snap, signer, number) ==
    LET signerCount == Len(signers(snap))
        off == offset(snap, signer)
        primary == primarySigner(number, signerCount)
        secondary == secondarySigner(number, signerCount)
        \* primary is not blocked
        Free(secondaryLastSlot) ==
            IF secondaryLastSlot # 0
            THEN LET replaced == secondaryLastSlot % signerCount
                 IN  IF replaced = off THEN Result(1, FALSE) ELSE Result(2, TRUE)
            ELSE IF secondary = off THEN Result(1, FALSE)
            ELSE Result(2, TRUE)
        \* primary is blocked because it replaced someone
        Blocked(replaced, replacedLastSlot) ==
            IF replacedLastSlot # 0
            THEN IF secondary = off THEN Result(0, FALSE) ELSE Result(2, TRUE)
            ELSE IF replaced = off THEN Result(0, FALSE)
            ELSE IF secondary = off THEN Result(1, FALSE)
            ELSE Result(2, TRUE)
    IN  UNION {IF primaryLastSlot = 0
               THEN {Free(secondaryLastSlot) :
                        secondaryLastSlot \in lastSlot(snap, secondary)}
               ELSE {Blocked(primaryLastSlot % signerCount, replacedLastSlot) :
                        replacedLastSlot \in
                            lastSlot(snap, primaryLastSlot % signerCount)} :
               primaryLastSlot \in lastSlot(snap, primary)}

\* ------------------------------------------------------ tally / override specification
\* the record of the most recent call: its name, and what it returned or
\* what it was given
NoCall == [op |-> "none"]

\* config.Pallas: nil, or a PallasConfig whose Block is nil or a block number
PallasConfigs ==
    {<<>>, <<[Block |-> <<>>]>>}
        \cup {<<[Block |-> <<b>>]>> : b \in 1..MaxPallasBlock}

Configs == [Epoch : 1..MaxEpoch, Pallas : PallasConfigs]

\* one entry of config.Pallas.Validators[n]
Validator == [Address : Addr, Super : BOOLEAN]

\* the target lists drawn for config.Pallas.Validators[n]: non-empty, each
\* address listed at most once, in ascending order
TargetLists ==
    {l \in UNION {[1..n -> Validator] : n \in 1..NumAddr} :
        \A i, j \in DOMAIN l : i < j => l[i].Address < l[j].Address}

\* the results of looking a block number up in config.Pallas.Validators
Lookups == {<<>>} \cup {<<l>> : l \in TargetLists}

\* the Snapshots as of block 1, produced by one of their signers, with no
\* open tally, under the chain configurations cs
Snapshots(cs) ==
    {snap \in [Number : {1}, Signers : (SUBSET Addr) \ {{}}, SuperSigners : SUBSET Addr,
               SuperTally : {EmptyMap}, Recents : [{1} -> Addr], config : cs] :
        /\ snap.SuperSigners \subseteq snap.Signers
        /\ snap.Recents[1] \in snap.Signers}

\* the configurations under which every header can bring an override: the
\* mechanism is active from block 1 and every block ends an epoch
ActiveConfigs ==
    {c \in Configs : c.Pallas # <<>> /\ c.Pallas[1].Block = <<1>> /\ c.Epoch = 1}

Init ==
    /\ s \in Snapshots(ActiveConfigs)
    /\ last = NoCall
    /\ prev = NoCall

CastSuper(address, authorize) ==
    /\ address \in DOMAIN s.SuperTally => s.SuperTally[address].Votes < MaxVotes
    /\ LET r == castSuper(s, address, authorize)
       IN  /\ s' = r.snap
           /\ last' = [op |-> "castSuper", ret |-> r.ret]
    /\ UNCHANGED prev

UncastSuper(address, authorize) ==
    /\ LET r == uncastSuper(s, address, authorize)
       IN  /\ s' = r.snap
           /\ last' = [op |-> "uncastSuper", ret |-> r.ret]
    /\ UNCHANGED prev

\* the next header of the chain is handed to applyPallasOverride; the entry
\* of config.Pallas.Validators for its block is read at most once in a
\* behaviour, so it is drawn when it is read
ApplyPallasOverride(lookup) ==
    /\ s.Number < MaxNumber
    /\ LET headerNumber == s.Number + 1
       IN  /\ s' = [applyPallasOverride(s, headerNumber, lookup)
                        EXCEPT !.Number = headerNumber]
           /\ last' = [op |-> "applyPallasOverride", number |-> headerNumber,
                       lookup |-> lookup]
    /\ UNCHANGED prev

Next ==
    \/ \E address \in Addr, authorize \in BOOLEAN : CastSuper(address, authorize)
    \/ \E address \in Addr, authorize \in BOOLEAN : UncastSuper(address, authorize)
    \/ \E lookup \in Lookups : ApplyPallasOverride(lookup)

Spec == Init /\ [][Next]_vars

\* ------------------------------------------------------ override over a chain of headers
\* the tallies drawn for a Snapshot: none open, or one record of one vote in
\* the direction valid for its candidate
OpenTallies(snap) ==
    {EmptyMap} \cup
        {[c \in {v[1]} |-> [Authorize |-> v[2], Votes |-> 1]] :
            v \in {w \in Addr \X BOOLEAN : validVoteSuper(snap, w[1], w[2])}}

InitChain ==
    /\ s \in UNION {{[snap EXCEPT !.SuperTally = t] : t \in OpenTallies(snap)} :
                      snap \in Snapshots(Configs)}
    /\ last = NoCall
    /\ prev = NoCall

NextChain == \E lookup \in Lookups : ApplyPallasOverride(lookup)

SpecChain == InitChain /\ [][NextChain]_vars

\* ------------------------------------------------------ scheduler specifications
\* the maps drawn for Recents in a Snapshot as of block n: the producers of at
\* most MaxRecents of the blocks 1..n
RecentMaps(n) ==
    UNION {[D -> SchedAddr] :
             D \in {E \in SUBSET (1..n) : Cardinality(E) <= MaxRecents}}

SchedSnapshots ==
    UNION {[Number : {n}, Signers : (SUBSET SchedAddr) \ {{}}, SuperSigners : {{}},
            SuperTally : {EmptyMap}, Recents : RecentMaps(n),
            config : {[Epoch |-> 1, Pallas |-> <<>>]}] : n \in 0..MaxBlock}

InitSched ==
    /\ s \in SchedSnapshots
    /\ last = NoCall
    /\ prev = NoCall

\* a node asks for its delay for the block that extends the Snapshot
ComputeDelay(signer) ==
    /\ \E r \in computeDelay(s, signer, s.Number + 1) :
          last' = [op |-> "computeDelay", signer |-> signer,
                   delay |-> r.delay, wiggle |-> r.wiggle]
    /\ UNCHANGED <<s, prev>>

NextDelay == \E signer \in SchedAddr : ComputeDelay(signer)

SpecDelay == InitSched /\ [][NextDelay]_vars

\* the same, keeping the evaluation before the last one
ComputeDelayAgain(signer) ==
    /\ \E r \in computeDelay(s, signer, s.Number + 1) :
          last' = [op |-> "computeDelay", signer |-> signer,
                   delay |-> r.delay, wiggle |-> r.wiggle]
    /\ prev' = last
    /\ UNCHANGED s

NextNodes == \E signer \in SchedAddr : ComputeDelayAgain(signer)

SpecNodes == InitSched /\ [][NextNodes]_vars

LastSlot(slot) ==
    /\ slot < Len(signers(s))
    /\ \E bn \in lastSlot(s, slot) :
          last' = [op |-> "lastSlot", slot |-> slot, ret |-> bn]
    /\ UNCHANGED <<s, prev>>

Offset(signer) ==
    /\ last' = [op |-> "offset", signer |-> signer, ret |-> offset(s, signer)]
    /\ UNCHANGED <<s, prev>>

NextSlot ==
    \/ \E slot \in 0..(NumSchedAddr - 1) : LastSlot(slot)
    \/ \E signer \in SchedAddr : Offset(signer)

SpecSlot == InitSched /\ [][NextSlot]_vars

\* ------------------------------------------------------ supermajority specification
InitPassed ==
    /\ s \in [Number : {1}, Signers : {1..n : n \in 0..MaxSuper},
              SuperSigners : {1..n : n \in 0..MaxSuper},
              SuperTally : {EmptyMap}, Recents : {EmptyMap},
              config : {[Epoch |-> 1, Pallas |-> <<>>]}]
    /\ s.SuperSigners = s.Signers
    /\ last = NoCall
    /\ prev = NoCall

HasPassedSuper(tally) ==
    /\ last' = [op |-> "hasPassedSuper", votes |-> tally.Votes,
                ret |-> hasPassedSuper(s, tally, s.Number)]
    /\ UNCHANGED <<s, prev>>

NextPassed ==
    \E tally \in [Authorize : BOOLEAN, Votes : 1..(MaxSuper + 1)] : HasPassedSuper(tally)

SpecPassed == InitPassed /\ [][NextPassed]_vars

\* ------------------------------------------------------ secondary slot specification
InitSecondary ==
    /\ s \in [Number : {0}, Signers : {1..n : n \in 1..MaxSigners},
              SuperSigners : {{}},
              SuperTally : {EmptyMap}, Recents : {EmptyMap},
              config : {[Epoch |-> 1, Pallas |-> <<>>]}]
    /\ last = NoCall
    /\ prev = NoCall

\* the slots computeDelay derives from number before it reads Recents
SecondarySigner(number) ==
    /\ LET signerCount == Len(signers(s))
       IN  last' = [op |-> "secondarySigner", number |-> number,
                    primary |-> primarySigner(number, signerCount),
                    ret |-> secondarySigner(number, signerCount)]
    /\ UNCHANGED <<s, prev>>

NextSecondary ==
    \E number \in 0..MaxSlotNumber : SecondarySigner(number)

SpecSecondary == InitSecondary /\ [][NextSecondary]_vars

\* ====================================================== claims
\* the override step recorded in last replaced the signer sets: the mechanism
\* is configured and active as of n-1, n is a multiple of the epoch length and
\* a target list is scheduled for n, where n is the block after the header
OverrideApplied ==
    /\ last.op = "applyPallasOverride"
    /\ s.config.Pallas # <<>>
    /\ s.config.Pallas[1].Block # <<>>
    /\ last.number >= s.config.Pallas[1].Block[1]
    /\ (last.number + 1) % s.config.Epoch = 0
    /\ last.lookup # <<>>

\* C1: in every reachable Snapshot SuperSigners is a subset of Signers, that
\* is isSuper(a) implies that a is a signer, whatever castSuper, uncastSuper
\* and applyPallasOverride steps were taken
C1_SuperSubsetOfSigners ==
    \A a \in Addr : isSuper(s, a) => a \in s.Signers

\* an override has just been applied that leaves an address out of the
\* signer set, while a super signer and an open tally remain
C1_Witness ==
    /\ OverrideApplied
    /\ s.Signers # Addr
    /\ s.SuperSigners # {}
    /\ s.SuperTally # EmptyMap

\* C2: after an override is applied the signer set is exactly the set of
\* addresses of the target list and Recents is empty
C2_OverrideReplacesSigners ==
    OverrideApplied =>
        /\ s.Signers = {last.lookup[1][i].Address : i \in DOMAIN last.lookup[1]}
        /\ DOMAIN s.Recents = {}

\* an override was applied with a target list of two addresses: the Recents
\* entry of the initial Snapshot is gone
C2_Witness ==
    /\ OverrideApplied
    /\ Len(last.lookup[1]) = 2
    /\ Cardinality(s.Signers) = 2
    /\ DOMAIN s.Recents = {}

\* C3: after an override is applied the super-signer set is exactly the set
\* of target entries whose Super flag is set
C3_OverrideReplacesSuperSigners ==
    OverrideApplied =>
        s.SuperSigners =
            {last.lookup[1][i].Address :
                i \in {j \in DOMAIN last.lookup[1] : last.lookup[1][j].Super}}

\* whether direction d is the one the claims call valid for candidate c
ValidDirection(snap, c, d) ==
    IF d THEN c \in snap.Signers /\ c \notin snap.SuperSigners
    ELSE c \in snap.SuperSigners

\* C4: castSuper(c, promote) returns true iff c is a signer and not super,
\* castSuper(c, demote) returns true iff c is super, both return false for a
\* non-signer; on false the Snapshot is unchanged, on true the record of c has
\* its count raised by exactly 1 (created with count 1 and the given direction
\* when absent) and nothing else changes
C4_CastVote ==
    \A c \in Addr, d \in BOOLEAN :
        LET r == castSuper(s, c, d)
            old == s.SuperTally
            new == r.snap.SuperTally
        IN  /\ r.ret = ValidDirection(s, c, d)
            /\ (c \notin s.Signers => ~r.ret)
            /\ (~r.ret => r.snap = s)
            /\ (r.ret =>
                  /\ r.snap = [s EXCEPT !.SuperTally = new]
                  /\ DOMAIN new = (DOMAIN old) \cup {c}
                  /\ \A a \in (DOMAIN old) \ {c} : new[a] = old[a]
                  /\ IF c \in DOMAIN old
                     THEN new[c] = [Authorize |-> old[c].Authorize,
                                    Votes |-> old[c].Votes + 1]
                     ELSE new[c] = [Authorize |-> d, Votes |-> 1])

\* a cast has just succeeded on a record that was already open, next to a
\* non-signer for which every cast fails
C4_Witness ==
    /\ last.op = "castSuper"
    /\ last.ret
    /\ \E c \in DOMAIN s.SuperTally : s.SuperTally[c].Votes = 2
    /\ s.Signers # Addr

\* n calls of castSuper(c, d) in a row: the Snapshot reached and whether all
\* returned true
RECURSIVE CastN(_, _, _, _)
CastN(snap, c, d, n) ==
    IF n = 0 THEN [snap |-> snap, ok |-> TRUE]
    ELSE LET before == CastN(snap, c, d, n - 1)
             r == castSuper(before.snap, c, d)
         IN  [snap |-> r.snap, ok |-> before.ok /\ r.ret]

\* n calls of uncastSuper(c, d) in a row
RECURSIVE UncastN(_, _, _, _)
UncastN(snap, c, d, n) ==
    IF n = 0 THEN [snap |-> snap, ok |-> TRUE]
    ELSE LET before == UncastN(snap, c, d, n - 1)
             r == uncastSuper(before.snap, c, d)
         IN  [snap |-> r.snap, ok |-> before.ok /\ r.ret]

\* C5: for a candidate c without a record and a direction d valid for c, N
\* casts followed by N revokes all return true and give back the Snapshot
\* the casts started from (no record for c, every other record as it was);
\* after k < N revokes the record of c holds N - k votes
C5_CastRevokeRoundTrip ==
    \A c \in Addr, d \in BOOLEAN, N \in 1..MaxVotes :
        (c \notin DOMAIN s.SuperTally /\ ValidDirection(s, c, d)) =>
            LET up == CastN(s, c, d, N)
            IN  /\ up.ok
                /\ \A k \in 0..N :
                      LET down == UncastN(up.snap, c, d, k)
                      IN  /\ down.ok
                          /\ k < N =>
                                /\ c \in DOMAIN down.snap.SuperTally
                                /\ down.snap.SuperTally[c].Votes = N - k
                                /\ \A a \in DOMAIN s.SuperTally :
                                      /\ a \in DOMAIN down.snap.SuperTally
                                      /\ down.snap.SuperTally[a] = s.SuperTally[a]
                          /\ k = N => down.snap = s

\* a revoke has just succeeded and left no record at all: the end of a round
\* trip from the empty tally
C5_Witness ==
    /\ last.op = "uncastSuper"
    /\ last.ret
    /\ s.SuperTally = EmptyMap
    /\ s.SuperSigners # {}
    /\ s.SuperSigners # s.Signers

\* C6: hasPassedSuper is true iff 4 * votes > 3 * S for S super signers, that
\* is iff votes > floor(3 * S / 4): false at votes = floor(3 * S / 4), true at
\* floor(3 * S / 4) + 1
C6_SupermajorityThreshold ==
    last.op = "hasPassedSuper" =>
        LET S == Cardinality(s.SuperSigners)
            floor34 == SetMax({q \in 0..(3 * S) : 4 * q <= 3 * S})
        IN  /\ last.ret <=> (4 * last.votes > 3 * S)
            /\ last.ret <=> (last.votes > floor34)
            /\ (last.votes = floor34 => ~last.ret)
            /\ (last.votes = floor34 + 1 => last.ret)

\* the boundary for 8 super signers: 7 votes pass
C6_Witness ==
    /\ last.op = "hasPassedSuper"
    /\ Cardinality(s.SuperSigners) = 8
    /\ last.votes = 7
    /\ last.ret

\* the block numbers at which Recents names the signer of a slot
EntriesOfSlot(slot) ==
    {bn \in DOMAIN s.Recents : s.Recents[bn] = SortAsc(s.Signers)[slot + 1]}

\* C7: computeDelay is deterministic: two evaluations for the same Snapshot,
\* signer and block number return the same (delay, wiggle)
C7_ComputeDelayDeterministic ==
    (/\ last.op = "computeDelay"
     /\ prev.op = "computeDelay"
     /\ last.signer = prev.signer) =>
        /\ last.delay = prev.delay
        /\ last.wiggle = prev.wiggle

\* C8: lastSlot(slot) returns the greatest block number at which Recents
\* names the signer of the slot, and 0 when it names that signer nowhere
C8_LastSlotMostRecent ==
    last.op = "lastSlot" =>
        last.ret = (IF EntriesOfSlot(last.slot) = {} THEN 0
                    ELSE SetMax(EntriesOfSlot(last.slot)))

\* C9: for one Snapshot and block at most one signer is given delay 0 and at
\* most one is given delay 1; delay 0 or 1 comes without wiggle and delay 2
\* with wiggle
C9_TiersUniquePerBlock ==
    /\ last.op = "computeDelay" =>
          /\ last.delay \in {0, 1} => ~last.wiggle
          /\ last.delay = 2 => last.wiggle
    /\ (/\ last.op = "computeDelay"
        /\ prev.op = "computeDelay"
        /\ last.signer # prev.signer) =>
          /\ ~(last.delay = 0 /\ prev.delay = 0)
          /\ ~(last.delay = 1 /\ prev.delay = 1)

\* the primary and the secondary slot of the block that extends a Snapshot
\* of four signers
PrimarySlot4 == (s.Number + 1) % 4

SecondarySlot4 == (PrimarySlot4 + 1) % 4

\* the last evaluation gave the secondary-slot signer (1, false) and any
\* other signer (2, true)
SecondaryNextOthersLater ==
    IF last.signer = SortAsc(s.Signers)[SecondarySlot4 + 1]
    THEN last.delay = 1 /\ ~last.wiggle
    ELSE last.delay = 2 /\ last.wiggle

\* C10 as claimed: with four signers and no Recents entry of the primary-slot
\* signer, the secondary-slot signer gets (1, false) and every other signer
\* (2, true)
C10_PrimaryFree ==
    (/\ last.op = "computeDelay"
     /\ Cardinality(s.Signers) = 4
     /\ last.signer \in s.Signers
     /\ EntriesOfSlot(PrimarySlot4) = {}) =>
        SecondaryNextOthersLater

\* C10 as amended: the same when the secondary-slot signer has no Recents
\* entry either
C10_PrimaryAndSecondaryFree ==
    (/\ last.op = "computeDelay"
     /\ Cardinality(s.Signers) = 4
     /\ last.signer \in s.Signers
     /\ EntriesOfSlot(PrimarySlot4) = {}
     /\ EntriesOfSlot(SecondarySlot4) = {}) =>
        SecondaryNextOthersLater

\* four signers, the other two signers have Recents entries, and the
\* secondary-slot signer was given (1, false)
C10_Witness ==
    /\ last.op = "computeDelay"
    /\ Cardinality(s.Signers) = 4
    /\ EntriesOfSlot(PrimarySlot4) = {}
    /\ EntriesOfSlot(SecondarySlot4) = {}
    /\ Cardinality(DOMAIN s.Recents) = 2
    /\ last.signer = SortAsc(s.Signers)[SecondarySlot4 + 1]
    /\ last.delay = 1
    /\ ~last.wiggle

\* the number of the block that extends the Snapshot and its primary slot
NextBlock == s.Number + 1

PrimarySlot == NextBlock % Cardinality(s.Signers)

\* C11: when the most recent Recents entry of the primary-slot signer of
\* block n is block n-1, and the signer at slot k = (n-1) mod signerCount has
\* no Recents entry, computeDelay gives the signer at slot k (0, false)
C11_DisplacedSignerReclaims ==
    LET k == (NextBlock - 1) % Cardinality(s.Signers)
    IN  (/\ last.op = "computeDelay"
         /\ EntriesOfSlot(PrimarySlot) # {}
         /\ SetMax(EntriesOfSlot(PrimarySlot) \cup {0}) = NextBlock - 1
         /\ EntriesOfSlot(k) = {}
         /\ last.signer = SortAsc(s.Signers)[k + 1]) =>
            (last.delay = 0 /\ ~last.wiggle)

\* C12: in every reachable Snapshot the direction of each tally record is
\* the direction valid for its candidate: a promote record only for a signer
\* that is not super, a demote record only for a super signer
C12_RecordDirectionValid ==
    \A c \in DOMAIN s.SuperTally :
        ValidDirection(s, c, s.SuperTally[c].Authorize)

\* C13: uncastSuper(c, d) returns false and changes nothing when c has no
\* record or its record has the other direction; otherwise it returns true,
\* lowers the count by 1 and deletes the record when the count reaches zero;
\* every record of a reachable Snapshot has at least one vote
C13_RevokeVote ==
    /\ \A c \in DOMAIN s.SuperTally : s.SuperTally[c].Votes >= 1
    /\ \A c \in Addr, d \in BOOLEAN :
          LET r == uncastSuper(s, c, d)
              old == s.SuperTally
              new == r.snap.SuperTally
          IN  IF c \notin DOMAIN old \/ old[c].Authorize # d
              THEN ~r.ret /\ r.snap = s
              ELSE /\ r.ret
                   /\ r.snap = [s EXCEPT !.SuperTally = new]
                   /\ \A a \in (DOMAIN old) \ {c} :
                         a \in DOMAIN new /\ new[a] = old[a]
                   /\ IF old[c].Votes - 1 = 0
                      THEN DOMAIN new = (DOMAIN old) \ {c}
                      ELSE /\ DOMAIN new = DOMAIN old
                           /\ new[c] = [Authorize |-> d, Votes |-> old[c].Votes - 1]

\* a revoke has just succeeded and the only record left holds one vote
C13_Witness ==
    /\ last.op = "uncastSuper"
    /\ last.ret
    /\ \E c \in Addr :
          /\ DOMAIN s.SuperTally = {c}
          /\ s.SuperTally[c].Votes = 1

\* C14: an override step leaves Signers, SuperSigners, Recents and SuperTally
\* as they were unless the mechanism is configured and active as of n-1, n is
\* a multiple of the epoch length and a target list is scheduled for n
C14_OverrideFrame ==
    [][(last'.op = "applyPallasOverride" /\ ~OverrideApplied') =>
          /\ s'.Signers = s.Signers
          /\ s'.SuperSigners = s.SuperSigners
          /\ s'.Recents = s.Recents
          /\ s'.SuperTally = s.SuperTally]_vars

\* a header whose next block has a target list scheduled was processed
\* before the activation block: the Recents entry and the open record are
\* still there
C14_Witness ==
    /\ last.op = "applyPallasOverride"
    /\ last.lookup # <<>>
    /\ s.config.Pallas # <<>>
    /\ s.config.Pallas[1].Block # <<>>
    /\ last.number < s.config.Pallas[1].Block[1]
    /\ (last.number + 1) % s.config.Epoch = 0
    /\ DOMAIN s.Recents # {}
    /\ DOMAIN s.SuperTally # {}

\* the step is an override step that changed the signer sets or Recents
OverrideTookEffect ==
    /\ last'.op = "applyPallasOverride"
    /\ \/ s'.Signers # s.Signers
       \/ s'.SuperSigners # s.SuperSigners
       \/ s'.Recents # s.Recents

\* C15 as claimed: an override takes effect only for a target block n other
\* than the activation block B and at least one full epoch after B
C15_FullEpochAfterActivation ==
    [][OverrideTookEffect =>
          /\ s.config.Pallas # <<>>
          /\ s.config.Pallas[1].Block # <<>>
          /\ last'.number + 1 # s.config.Pallas[1].Block[1]
          /\ last'.number + 1 >= s.config.Pallas[1].Block[1] + s.config.Epoch]_vars

\* C15 as amended: an override takes effect only for a target block n after
\* the activation block B, never for B itself, with n a multiple of the epoch
\* length; n is a full epoch after B when B is a multiple of the epoch length
C15_AfterActivationBlock ==
    [][OverrideTookEffect =>
          /\ s.config.Pallas # <<>>
          /\ s.config.Pallas[1].Block # <<>>
          /\ last'.number + 1 # s.config.Pallas[1].Block[1]
          /\ last'.number + 1 > s.config.Pallas[1].Block[1]
          /\ (last'.number + 1) % s.config.Epoch = 0
          /\ (s.config.Pallas[1].Block[1] % s.config.Epoch = 0 =>
                last'.number + 1 >= s.config.Pallas[1].Block[1] + s.config.Epoch)]_vars

\* the header of the activation block itself was processed and the list
\* scheduled for the block after it replaced the signer set and cleared
\* Recents, with an epoch of more than one block
C15_Witness ==
    /\ OverrideApplied
    /\ last.number = s.config.Pallas[1].Block[1]
    /\ s.config.Epoch > 1
    /\ DOMAIN s.Recents = {}
    /\ s.Signers = {last.lookup[1][i].Address : i \in DOMAIN last.lookup[1]}

\* C16: chained displacement: when the primary-slot signer of the next block
\* last produced at block p and the signer at slot p mod signerCount has an
\* entry in Recents too, computeDelay returns (0, false) for the
\* secondary-slot signer and (2, true) for every other signer
C16_ChainedDisplacement ==
    LET c == Cardinality(s.Signers)
        p == SetMax(EntriesOfSlot(PrimarySlot) \cup {0})
    IN  (/\ last.op = "computeDelay"
         /\ EntriesOfSlot(PrimarySlot) # {}
         /\ EntriesOfSlot(p % c) # {}) =>
            IF last.signer = SortAsc(s.Signers)[secondarySigner(NextBlock, c) + 1]
            THEN last.delay = 0 /\ ~last.wiggle
            ELSE last.delay = 2 /\ last.wiggle

\* C17: when a record exists for a candidate with the direction opposite to a
\* cast that is valid now, castSuper returns true, raises the count of that
\* record by 1 and keeps the direction the record was opened with
C17_CastOnOppositeRecord ==
    \A c \in DOMAIN s.SuperTally, d \in BOOLEAN :
        (s.SuperTally[c].Authorize # d /\ ValidDirection(s, c, d)) =>
            LET r == castSuper(s, c, d)
            IN  /\ r.ret
                /\ DOMAIN r.snap.SuperTally = DOMAIN s.SuperTally
                /\ r.snap.SuperTally[c].Votes = s.SuperTally[c].Votes + 1
                /\ r.snap.SuperTally[c].Authorize = s.SuperTally[c].Authorize
                /\ r.snap.SuperTally[c].Authorize # d

\* a cast has just succeeded on the only open record, which now holds two
\* votes in a direction that is no longer valid for its candidate
C17_Witness ==
    /\ last.op = "castSuper"
    /\ last.ret
    /\ \E c \in Addr :
          /\ DOMAIN s.SuperTally = {c}
          /\ s.SuperTally[c].Votes = 2
          /\ ~ValidDirection(s, c, s.SuperTally[c].Authorize)
          /\ ValidDirection(s, c, ~s.SuperTally[c].Authorize)

\* C18: the secondary slot computed on uint64 lies in [0, signerCount), equals
\* (primarySlot + floor(signerCount/2) - 1) mod signerCount over the integers,
\* and differs from the primary slot whenever signerCount >= 4
C18_SecondarySlot ==
    last.op = "secondarySigner" =>
        LET c == Cardinality(s.Signers)
            p == last.number % c
        IN  /\ last.primary = p
            /\ last.ret \in 0..(c - 1)
            /\ last.ret = (p + (c \div 2) - 1) % c
            /\ (c >= 4 => last.ret # p)

\* the secondary slot was computed for four or more signers and a block
\* number that is a multiple of the signer count, where number%signerCount - 1
\* wraps around on uint64
C18_Witness ==
    /\ last.op = "secondarySigner"
    /\ Cardinality(s.Signers) >= 4
    /\ last.number > 0
    /\ last.number % Cardinality(s.Signers) = 0
    /\ last.ret = (Cardinality(s.Signers) \div 2) - 1

\* C19: for an address that is not a signer, offset returns the number of
\* signers and computeDelay returns (2, true), whatever Recents holds
C19_NonSignerLast ==
    (last.op = "computeDelay" /\ last.signer \notin s.Signers) =>
        /\ offset(s, last.signer) = Cardinality(s.Signers)
        /\ last.delay = 2
        /\ last.wiggle

\* computeDelay was evaluated for a non-signer whose address lies between
\* those of two signers, while Recents names the primary-slot signer
C19_Witness ==
    /\ last.op = "computeDelay"
    /\ last.signer \notin s.Signers
    /\ \E a, b \in s.Signers : a < last.signer /\ last.signer < b
    /\ EntriesOfSlot(PrimarySlot) # {}
    /\ last.delay = 2
    /\ last.wiggle

====
